---- MODULE Spec2Model ----
(***************************************************************************)
(* Model of the benchwrap sync engine (src/benchwrap/cli_sync.py,          *)
(* cli_progress.py, cli_auth.py): one `sync` invocation, from the auth     *)
(* exchange through enumeration, confirmation, the ThreadPoolExecutor of   *)
(* upload_one tasks writing to the shared terminal table, to the summary.  *)
(*                                                                         *)
(* Items and rows are numbered from 0 as in the Python code.  File sizes   *)
(* and the chunk size are in MiB.                                          *)
(*                                                                         *)
(* Spec follows one invocation to its end.  SpecAuth follows successive    *)
(* invocations up to the start of the upload phase and keeps an audit      *)
(* trail of the prompts and auth requests each of them made.               *)
(***************************************************************************)
EXTENDS Integers, Sequences, FiniteSets, TLC

\* ---- bounds -------------------------------------------------------------
MaxItems == 2
MaxWorkers == 2
MaxSyncs == 2

\* ---- program constants --------------------------------------------------
ChunkSize == 1
RegisterOk == 201
AuthOk == 200
PresignOk == 200

\* ---- input domains ------------------------------------------------------
FileSizes == {0, 1}
PresignStatuses == {200, 403}
PutStatuses == {200, 201, 204, 202, 301, 500}
AuthStatuses == {200, 201, 401}
NoOne == 0 - 1

VARIABLES
    pc,          \* position of the sync command (coordinator thread)
    tokFile,     \* contents of TOK_FILE (0: absent or empty)
    access,      \* access_token held by sync (0: None/False)
    issued,      \* number of token pairs the server has issued
    files,       \* list_files_upload(): position -> file size
    jobs,        \* --jobs
    rows,        \* cli_progress._rows
    cursor,      \* terminal cursor line, relative to the saved origin
    screen,      \* terminal line -> texts written since the line was cleared
    lock,        \* holder of PRINT_LOCK (NoOne: free)
    futures,     \* submitted tasks: position -> [idx, item]
    queue,       \* executor work queue (positions, FIFO)
    wpc,         \* position of each upload_one task
    sent,        \* ProgressFile.bytes_sent of each task
    pstat,       \* presign status seen by each task (0: none)
    putst,       \* PUT status seen by each task (0: none)
    puts,        \* PUT requests issued by each task, in order
    handles,     \* tasks whose ProgressFile holds its local file open
    presigns,    \* presign requests issued by each task
    tu,          \* pending table_update call of each task: [row, text, pos, after]
    outcome,     \* what each future holds: nothing yet, a result or an exception
    completed,   \* futures in completion order (as_completed)
    collected,   \* number of futures the coordinator has consumed
    results,     \* upload_many's results list
    returned,    \* upload_many has given control back ("no", "value", "raise")
    summary,     \* the printed summary <<X, N>> (<<>>: none)
    calls,       \* every table_update call made: <<item, row, text>>
    written,     \* the text each task wrote last (<<>>: none yet)
    audit,       \* TRUE: the history variables below are kept (SpecAuth)
    log,         \* prompts and auth requests of this invocation, in order
    past,        \* the earlier invocations: [tok: TOK_FILE at start, log]
    tokAtStart,  \* contents of TOK_FILE when this invocation started
    lastRefresh, \* refresh value of the latest response that carried one
    arg,         \* the helper call under study and its arguments
    out,         \* what that call returned or raised
    env          \* what that call acts on (files, Slurm)

vars == <<pc, tokFile, access, issued, files, jobs, rows, cursor,
          screen, lock, futures, queue, wpc, sent, pstat, putst, puts, handles,
          presigns, tu, outcome, completed, collected, results, returned,
          summary, calls, written, audit, log, past, tokAtStart,
          lastRefresh, arg, out, env>>

authVars == <<tokFile, access, issued>>
obsVars == <<audit, log, past, tokAtStart, lastRefresh>>
fnVars == <<arg, out, env>>
syncVars == <<pc, tokFile, access, issued, files, jobs, rows, cursor,
              screen, lock, futures, queue, wpc, sent, pstat, putst, puts, handles,
              presigns, tu, outcome, completed, collected, results, returned,
              summary, calls, written, audit, log, past, tokAtStart,
              lastRefresh>>
termVars == <<rows, cursor, screen, lock, calls, written>>
poolVars == <<futures, queue, wpc, sent, pstat, putst, puts, handles, presigns, tu,
              outcome, completed, collected, results, returned>>

Min(a, b) == IF a < b THEN a ELSE b
N == Len(files)
Items == 0 .. (N - 1)
Size(p) == files[p + 1]

\* ---- terminal (the escape sequences table_start/table_update emit) -------
Bottom == rows + 1
BlankScreen(n) == [l \in 0 .. (n + 1) |-> <<>>]
\* "\x1b[u": back to the position saved by table_start
TermRestore == 0
\* "\x1b[{n}B" (CUD): cursor down n lines, stopping at the last line; a
\* parameter of 0 stands for the default, one line (VT100, xterm, the Linux
\* console and their descendants all read it so)
TermDown(c, n) == Min(c + (IF n < 1 THEN 1 ELSE n), Bottom)
\* "\x1b[2K": erase the whole line the cursor is on
TermClear(scr, c) == [scr EXCEPT ![c] = <<>>]
\* plain text: printed on the line the cursor is on
TermWrite(scr, c, text) == [scr EXCEPT ![c] = Append(@, text)]

\* ---- row texts ----------------------------------------------------------
PresignFailText(name, status) == <<"presign", name, status>>
ZeroByteText(name, status) == <<"zero-byte", name, status>>
pac_line(name, sentNow, size) == <<"progress", name, sentNow>>
DoneText(name) == <<"done", name, 0>>
FailText(name, status) == <<"fail", name, status>>

\* mutant: the PUT is made through the session that carries the bearer token
PutRequestInSession(body, clen) == [body |-> body, clen |-> clen, auth |-> TRUE]
\* a PUT request: requests.put(upload_url, data=..., headers=...), outside
\* the session that carries the bearer token
PutRequest(body, clen) == [body |-> body, clen |-> clen, auth |-> FALSE]

\* mutant: only server errors count as a failed presign
PresignFailedOnly5xx(status) == status >= 500
\* if response.status_code != 200
PresignFailed(status) == status # PresignOk
\* mutant: the zero-byte branch is never taken
IsZeroByteNever(size) == FALSE
\* if file_size == 0
IsZeroByte(size) == size = 0

\* requests.Response.ok: status below 400
ResponseOk(status) == status < 400
\* the success flag upload_one returns for a PUT response
PutSuccess(status) == ResponseOk(status)

NoCall == [row |-> 0, text |-> <<>>, pos |-> 0, after |-> "none"]
NoFuture == [idx |-> NoOne, item |-> NoOne]
NoOutcome == [kind |-> "none", name |-> NoOne, ok |-> FALSE]
Raised == [kind |-> "raised", name |-> NoOne, ok |-> FALSE]
Result(name, ok) == [kind |-> "result", name |-> name, ok |-> ok]
Running == {p \in Items : wpc[p] \notin {"new", "queued", "done"}}
Submitted == {p \in Items : futures[p] # NoFuture}
Idx(p) == futures[p].idx
Name(p) == futures[p].item

\* ---- tokens -------------------------------------------------------------
\* the k-th pair the server issues: {"access": Access(k), "refresh": Refresh(k)}
Refresh(k) == 2 * k
Access(k) == 2 * k + 1

\* ---- initial state ------------------------------------------------------
InitState ==
    /\ pc = "start"
    /\ tokFile \in {0, Refresh(1)}
    /\ access = 0
    /\ issued = 1
    /\ files = <<>>
    /\ jobs \in 1 .. MaxWorkers
    /\ rows = 0
    /\ cursor = 0
    /\ screen = BlankScreen(0)
    /\ lock = NoOne
    /\ futures = <<>>
    /\ queue = <<>>
    /\ wpc = <<>>
    /\ sent = <<>>
    /\ pstat = <<>>
    /\ putst = <<>>
    /\ puts = <<>>
    /\ handles = {}
    /\ presigns = <<>>
    /\ tu = <<>>
    /\ outcome = <<>>
    /\ completed = <<>>
    /\ collected = 0
    /\ results = <<>>
    /\ returned = "no"
    /\ summary = <<>>
    /\ calls = {}
    /\ written = <<>>
    /\ log = <<>>
    /\ past = <<>>

\* one invocation, no audit trail
NoValue == [fn |-> "none"]
\* no helper call is under study
NoHelper ==
    /\ arg = NoValue
    /\ out = NoValue
    /\ env = NoValue

Init ==
    /\ InitState
    /\ audit = FALSE
    /\ tokAtStart = 0
    /\ lastRefresh = 0
    /\ NoHelper

\* successive invocations with the audit trail; a stored token is the refresh
\* value of an earlier exchange
InitAuth ==
    /\ InitState
    /\ audit = TRUE
    /\ tokAtStart = tokFile
    /\ lastRefresh = tokFile
    /\ NoHelper

\* ---- cli_auth: the auth exchange of sync --------------------------------
registered == tokFile # 0

\* what requests.post gives back: an exception (network error, timeout), a
\* refusal, or the expected status with a body that is the token pair, not
\* JSON, or JSON lacking one of the two fields
AuthReplies(okStatus) ==
    {[status |-> 0, body |-> "neterr"]}
    \cup {[status |-> s, body |-> "text"] : s \in AuthStatuses \ {okStatus}}
    \cup {[status |-> okStatus, body |-> b] :
              b \in {"pair", "malformed", "no_refresh", "no_access"}}

\* an entry of the audit trail
Ev(ev, status, rid, latest) ==
    [ev |-> ev, status |-> status, rid |-> rid, latest |-> latest]
Record(events) == log' = IF audit THEN log \o events ELSE log
SeeRefresh(v) == lastRefresh' = IF audit THEN v ELSE lastRefresh

\* mutant: no status is taken for a refusal unless it is an error status
RegisterRejectedOnlyErrors(status) == status >= 400
\* register: if response.status_code != 201
RegisterRejected(status) == status # RegisterOk
\* get_access_token, login: if response.status_code != 200
AuthRejected(status) == status # AuthOk

\* mutant: the access value is what gets stored
StoredAccess(k) == Access(k)
\* mutant: the token file keeps its old contents (no rotation)
StoredStale(k) == tokFile
\* TOK_FILE.write_text(data["refresh"]) for the k-th pair
StoredRefresh(k) == Refresh(k)

\* mutant: sync goes on after a failed login
LoginFailedGoesOn == "enumerate"
\* sync: "Login failed. Cannot sync." return False
LoginFailedPc == "auth_failed"

\* mutant: sync always takes the registration branch
NeedsRegistrationAlways == TRUE
\* sync: if not registered()
NeedsRegistration == ~registered

\* the part the three functions share, from the response on: a refusal
\* returns False; otherwise data = response.json(),
\* TOK_FILE.write_text(data["refresh"]), return data["access"].  An exception
\* (from requests, from json(), or a KeyError) is caught nowhere and leaves
\* sync.
Exchange(reply, rejected, failPc) ==
    CASE reply.body = "neterr" ->
           /\ pc' = "auth_crashed"
           /\ UNCHANGED <<authVars, lastRefresh>>
      [] reply.body # "neterr" /\ rejected ->
           /\ pc' = failPc
           /\ UNCHANGED <<authVars, lastRefresh>>
      [] ~rejected /\ reply.body \in {"malformed", "no_refresh"} ->
           /\ pc' = "auth_crashed"
           /\ UNCHANGED <<authVars, lastRefresh>>
      [] ~rejected /\ reply.body = "no_access" ->
           /\ issued' = issued + 1
           /\ tokFile' = StoredRefresh(issued + 1)
           /\ SeeRefresh(Refresh(issued + 1))
           /\ pc' = "auth_crashed"
           /\ UNCHANGED access
      [] ~rejected /\ reply.body \in {"pair", "text"} ->
           /\ issued' = issued + 1
           /\ tokFile' = StoredRefresh(issued + 1)
           /\ SeeRefresh(Refresh(issued + 1))
           /\ access' = Access(issued + 1)
           /\ pc' = "enumerate"

register ==
    /\ pc = "start"
    /\ NeedsRegistration
    /\ \/ \E reply \in AuthReplies(RegisterOk) :
             /\ Exchange(reply, RegisterRejected(reply.status), "auth_failed")
             /\ Record(<<Ev("prompt", 0, 0, 0),
                         Ev("register", reply.status, 0, 0)>>)
       \/ \* "Passwords do not match!"
          /\ pc' = "auth_failed"
          /\ Record(<<Ev("prompt", 0, 0, 0)>>)
          /\ UNCHANGED <<authVars, lastRefresh>>
    /\ UNCHANGED <<files, jobs, summary, audit, past, tokAtStart>>
    /\ UNCHANGED fnVars
    /\ UNCHANGED termVars
    /\ UNCHANGED poolVars

get_access_token ==
    /\ pc = "start"
    /\ ~NeedsRegistration
    /\ \E reply \in AuthReplies(AuthOk) :
          /\ Exchange(reply, AuthRejected(reply.status), "login")
          /\ Record(<<Ev("refresh", reply.status, tokFile, lastRefresh)>>)
    /\ UNCHANGED <<files, jobs, summary, audit, past, tokAtStart>>
    /\ UNCHANGED fnVars
    /\ UNCHANGED termVars
    /\ UNCHANGED poolVars

login ==
    /\ pc = "login"
    /\ \E reply \in AuthReplies(AuthOk) :
          /\ Exchange(reply, AuthRejected(reply.status), LoginFailedPc)
          /\ Record(<<Ev("prompt", 0, 0, 0),
                      Ev("password", reply.status, 0, 0)>>)
    /\ UNCHANGED <<files, jobs, summary, audit, past, tokAtStart>>
    /\ UNCHANGED fnVars
    /\ UNCHANGED termVars
    /\ UNCHANGED poolVars

\* ---- sync: enumeration, confirmation, table_start ------------------------
\* mutant: the empty list is not short-circuited
AfterListingAlwaysAsks(n) == "confirm"
\* mutant: the upload starts without the confirmation prompt
AfterListingNoPrompt(n) == IF n = 0 THEN "nofiles" ELSE "table_start"
\* sync: if not files: "No files to sync." return True
AfterListing(n) == IF n = 0 THEN "nofiles" ELSE "confirm"

\* mutant: the operator's answer is ignored
AfterConfirmIgnored(yes) == "table_start"
\* sync: if not click.confirm(":: Proceed?"): "Aborted." return False
AfterConfirm(yes) == IF yes THEN "table_start" ELSE "declined"

\* the directory JOBS_DEFAULT: absent, or the files under it in walk order,
\* each one a directory (the root, a subdirectory, a subdirectory that is
\* itself called tokens), a name (the reserved one or any other) and a size
Reserved == "tokens"
FileNames == {Reserved, "data"}
DirNames == {"", "sub", Reserved}
Entries == [dir : DirNames, name : FileNames, size : FileSizes]
\* no two files of a tree have the same path
DistinctPaths(e) ==
    \A i, j \in DOMAIN e :
        (e[i].dir = e[j].dir /\ e[i].name = e[j].name) => i = j
Trees ==
    {[exists |-> FALSE, entries |-> <<>>]}
    \cup {[exists |-> TRUE, entries |-> e] :
              e \in {x \in UNION {[1 .. k -> Entries] : k \in 0 .. MaxItems} :
                        DistinctPaths(x)}}
\* mutant: the reserved name is skipped in the root directory only
ExcludedOnlyAtRoot(entry) == entry.name = Reserved /\ entry.dir = ""
\* list_files_upload: if filename == "tokens": continue
Excluded(entry) == entry.name = Reserved
Eligible(entries) == SelectSeq(entries, LAMBDA e : ~Excluded(e))
\* the (filepath, archive_name) items; os.walk of a root that does not exist
\* yields nothing
Listing(tree) == IF tree.exists THEN Eligible(tree.entries) ELSE <<>>
\* what upload_one later reads of each item: its size
Walk(tree) == [i \in DOMAIN Listing(tree) |-> Listing(tree)[i].size]

list_files_upload ==
    /\ pc = "enumerate"
    /\ \E tree \in Trees : \E n \in {Len(Walk(tree))} :
          /\ files' = Walk(tree)
          /\ pc' = AfterListing(n)
          /\ futures' = [p \in 0 .. (n - 1) |-> NoFuture]
          /\ wpc' = [p \in 0 .. (n - 1) |-> "new"]
          /\ sent' = [p \in 0 .. (n - 1) |-> 0]
          /\ pstat' = [p \in 0 .. (n - 1) |-> 0]
          /\ putst' = [p \in 0 .. (n - 1) |-> 0]
          /\ puts' = [p \in 0 .. (n - 1) |-> <<>>]
          /\ handles' = {}
          /\ presigns' = [p \in 0 .. (n - 1) |-> 0]
          /\ tu' = [p \in 0 .. (n - 1) |-> NoCall]
          /\ outcome' = [p \in 0 .. (n - 1) |-> NoOutcome]
          /\ written' = [p \in 0 .. (n - 1) |-> <<>>]
    /\ UNCHANGED <<jobs, summary, queue, completed, collected,
                   results, returned, rows, cursor, screen, lock, calls>>
    /\ UNCHANGED authVars
    /\ UNCHANGED obsVars
    /\ UNCHANGED fnVars

confirm ==
    /\ pc = "confirm"
    /\ \E yes \in BOOLEAN :
          /\ pc' = AfterConfirm(yes)
          /\ Record(<<Ev("confirm", IF yes THEN 1 ELSE 0, 0, 0)>>)
    /\ UNCHANGED <<files, jobs, summary, audit, past, tokAtStart, lastRefresh>>
    /\ UNCHANGED fnVars
    /\ UNCHANGED authVars
    /\ UNCHANGED termVars
    /\ UNCHANGED poolVars

\* table_start(len(files)): n newlines, n lines up, save the cursor
\* mutant: the assignment stays local to table_start
SetRowsLocal(num_rows) == rows
\* table_start: global _rows; _rows = num_rows
SetRows(num_rows) == num_rows

table_start ==
    /\ pc = "table_start"
    /\ rows' = SetRows(N)
    /\ screen' = BlankScreen(N)
    /\ cursor' = 0
    /\ pc' = "upload_many"
    /\ UNCHANGED <<files, jobs, summary, lock, calls, written>>
    /\ UNCHANGED authVars
    /\ UNCHANGED poolVars
    /\ UNCHANGED obsVars
    /\ UNCHANGED fnVars

\* ---- upload_many: the coordinator side ----------------------------------
coordVars == <<pc, files, jobs, rows,
               futures, collected, results, returned, summary, audit, log,
               past, tokAtStart, lastRefresh, arg, out, env>>

\* mutant: every item is bound to row 0
indexed_files_row0 == [p \in Items |-> [idx |-> 0, item |-> p]]
\* list(enumerate(files)): the (row index, item) pairs handed to upload_many
indexed_files == [p \in Items |-> [idx |-> p, item |-> p]]

\* executor.submit(upload_one, idx, ...) for the next pair of indexed_files
Submit ==
    /\ pc = "upload_many"
    /\ LET k == Cardinality(Submitted) IN
          /\ futures' = [futures EXCEPT ![k] = indexed_files[k]]
          /\ queue' = Append(queue, k)
          /\ wpc' = [wpc EXCEPT ![k] = "queued"]
          /\ pc' = IF k + 1 = N THEN "collect" ELSE "upload_many"
    /\ UNCHANGED <<files, jobs, summary, sent, pstat, putst, puts, handles,
                   presigns, tu, outcome, completed, collected, results,
                   returned>>
    /\ UNCHANGED authVars
    /\ UNCHANGED termVars
    /\ UNCHANGED obsVars
    /\ UNCHANGED fnVars

\* for future in as_completed(futures): results.append(future.result())
Collect ==
    /\ pc = "collect"
    /\ collected < Len(completed)
    /\ LET f == completed[collected + 1] IN
          IF outcome[f].kind = "raised"
          THEN \* future.result() re-raises the task's exception
               /\ pc' = "unwind"
               /\ UNCHANGED <<collected, results>>
          ELSE /\ results' = Append(results, <<outcome[f].name, outcome[f].ok>>)
               /\ collected' = collected + 1
               /\ pc' = IF collected + 1 = N THEN "shutdown" ELSE "collect"
    /\ UNCHANGED <<files, jobs, summary, futures, queue, wpc, sent,
                   pstat, putst, puts, handles, presigns, tu, outcome, completed,
                   returned>>
    /\ UNCHANGED authVars
    /\ UNCHANGED termVars
    /\ UNCHANGED obsVars
    /\ UNCHANGED fnVars

\* ThreadPoolExecutor.__exit__: shutdown(wait=True) joins the worker threads,
\* which first drain the work queue
\* mutant: the executor is left without waiting (shutdown(wait=False))
AllJoinedNoWait == TRUE
AllJoined == \A p \in Items : wpc[p] = "done"

ExecutorExit ==
    /\ pc \in {"shutdown", "unwind"}
    /\ AllJoined
    /\ returned' = IF pc = "shutdown" THEN "value" ELSE "raise"
    /\ pc' = IF pc = "shutdown" THEN "summary" ELSE "crashed"
    /\ UNCHANGED <<files, jobs, summary, futures, queue, wpc, sent,
                   pstat, putst, puts, handles, presigns, tu, outcome, completed,
                   collected, results>>
    /\ UNCHANGED authVars
    /\ UNCHANGED termVars
    /\ UNCHANGED obsVars
    /\ UNCHANGED fnVars

Successes(res) == Cardinality({k \in 1 .. Len(res) : res[k][2]})

\* ":: Summary: X/N uploaded successfully"
Summarize ==
    /\ pc = "summary"
    /\ summary' = <<Successes(results), Len(files)>>
    /\ pc' = "summarized"
    /\ UNCHANGED <<files, jobs>>
    /\ UNCHANGED authVars
    /\ UNCHANGED termVars
    /\ UNCHANGED poolVars
    /\ UNCHANGED obsVars
    /\ UNCHANGED fnVars

\* ---- the executor's worker threads and upload_one ------------------------
\* mutant: a worker refreshes the token itself
TokenRefreshedByWorker ==
    /\ issued' = issued + 1
    /\ tokFile' = StoredRefresh(issued + 1)
    /\ access' = Access(issued + 1)
\* upload_one gets access_token as an argument and only puts it in the
\* Authorization header; it calls nothing of cli_auth
TokenUntouched == UNCHANGED authVars
workerFrame == UNCHANGED coordVars /\ TokenUntouched

\* ThreadPoolExecutor(max_workers=workers): at most `jobs` threads exist, each
\* running one work item at a time
\* mutant: a thread per submitted item
PoolHasRoomUnbounded == TRUE
PoolHasRoom == Cardinality(Running) < jobs

StartTask(p) ==
    /\ queue # <<>>
    /\ Head(queue) = p
    /\ PoolHasRoom
    /\ queue' = Tail(queue)
    /\ wpc' = [wpc EXCEPT ![p] = "presign"]
    /\ UNCHANGED <<cursor, screen, lock, calls, written, sent, pstat, putst, puts, handles,
                   presigns, tu, outcome, completed>>
    /\ workerFrame

\* an exception leaves upload_one: the future holds it and is complete
Raise(p) ==
    /\ outcome' = [outcome EXCEPT ![p] = Raised]
    /\ completed' = Append(completed, p)
    /\ wpc' = [wpc EXCEPT ![p] = "done"]
    /\ UNCHANGED tu

\* table_update(row, text) is called; upload_one goes on at `after`
Call(p, row, text, after) ==
    /\ tu' = [tu EXCEPT ![p] = [row |-> row, text |-> text, pos |-> 1,
                                after |-> after]]
    /\ wpc' = [wpc EXCEPT ![p] = "table_update"]
    /\ UNCHANGED <<outcome, completed>>

\* ProgressFile.__init__: self.file_handle = open(filepath, "rb")
Opened(h, p) == h \cup {p}
\* ProgressFile.close: self.file_handle.close()
Closed(h, p) == h \ {p}
\* mutant: the file is closed only after a PUT that returned
AfterRaiseLeaks(h, p) == h
\* try: requests.put(...) finally: progress_file.close()
AfterRaise(h, p) == Closed(h, p)

\* session.post(presign): a status other than 200 ends the task with a failed
\* row; with 200 the PUT is started (empty body for a zero-byte file,
\* a ProgressFile otherwise)
\* mutant: a refused presign is tried again
PresignRefusedRetries == "presign"
\* upload_one: table_update(...); return object_name, False
PresignRefusedThen == "ret"

Presign(p) ==
    /\ wpc[p] = "presign"
    /\ presigns' = [presigns EXCEPT ![p] = @ + 1]
    /\ \/ \* requests raises (connection error, timeout)
          /\ Raise(p)
          /\ UNCHANGED <<pstat, puts, handles>>
       \/ \E status \in PresignStatuses :
             /\ pstat' = [pstat EXCEPT ![p] = status]
             /\ IF PresignFailed(status)
                THEN /\ Call(p, Idx(p), PresignFailText(Name(p), status),
                             PresignRefusedThen)
                     /\ UNCHANGED <<puts, handles>>
                ELSE /\ IF IsZeroByte(Size(Name(p)))
                        THEN /\ puts' = [puts EXCEPT ![p] =
                                           Append(@, PutRequest(0, 0))]
                             /\ wpc' = [wpc EXCEPT ![p] = "put0"]
                             /\ UNCHANGED handles
                        ELSE /\ puts' = [puts EXCEPT ![p] =
                                           Append(@, PutRequest(Size(Name(p)),
                                                                Size(Name(p))))]
                             /\ wpc' = [wpc EXCEPT ![p] = "stream"]
                             /\ handles' = Opened(handles, p)
                     /\ UNCHANGED <<tu, outcome, completed>>
    /\ UNCHANGED <<cursor, screen, lock, calls, written, sent, putst, queue>>
    /\ workerFrame

\* the zero-byte branch: requests.put(data=b"", Content-Length: 0) answers
PutZero(p) ==
    /\ wpc[p] = "put0"
    /\ \/ /\ Raise(p)
          /\ UNCHANGED putst
       \/ \E status \in PutStatuses :
             /\ putst' = [putst EXCEPT ![p] = status]
             /\ Call(p, Idx(p), ZeroByteText(Name(p), status), "ret")
    /\ UNCHANGED <<cursor, screen, lock, calls, written, sent, pstat, puts, handles, presigns,
                   queue>>
    /\ workerFrame

\* ProgressFile.read: a non-empty chunk advances bytes_sent and calls the
\* progress callback, which calls table_update
ReadChunk(p) ==
    /\ wpc[p] = "stream"
    /\ sent[p] < Size(Name(p))
    /\ LET now == sent[p] + Min(ChunkSize, Size(Name(p)) - sent[p]) IN
          /\ sent' = [sent EXCEPT ![p] = now]
          /\ Call(p, Idx(p), pac_line(Name(p), now, Size(Name(p))), "stream")
    /\ UNCHANGED <<cursor, screen, lock, calls, written, pstat, putst, puts, handles, presigns,
                   queue>>
    /\ workerFrame

\* the streaming PUT raises; `finally` closes the file and the exception
\* leaves upload_one
PutRaises(p) ==
    /\ wpc[p] = "stream"
    /\ Raise(p)
    /\ handles' = AfterRaise(handles, p)
    /\ UNCHANGED <<cursor, screen, lock, calls, written, sent, pstat, putst, puts,
                   presigns, queue>>
    /\ workerFrame

\* the streaming PUT answers after the whole body was read: final status row
PutResponse(p) ==
    /\ wpc[p] = "stream"
    /\ sent[p] = Size(Name(p))
    /\ \E status \in PutStatuses :
          /\ putst' = [putst EXCEPT ![p] = status]
          /\ Call(p, Idx(p),
                  IF ResponseOk(status) THEN DoneText(Name(p))
                                        ELSE FailText(Name(p), status),
                  "ret")
    /\ handles' = Closed(handles, p)
    /\ UNCHANGED <<cursor, screen, lock, calls, written, sent, pstat, puts, presigns,
                   queue>>
    /\ workerFrame

\* return object_name, <success>: the future holds the result and is complete
Return(p) ==
    /\ wpc[p] = "ret"
    /\ outcome' = [outcome EXCEPT ![p] =
                     Result(Name(p), IF PresignFailed(pstat[p]) THEN FALSE
                                     ELSE PutSuccess(putst[p]))]
    /\ completed' = Append(completed, p)
    /\ wpc' = [wpc EXCEPT ![p] = "done"]
    /\ UNCHANGED <<cursor, screen, lock, calls, written, sent, pstat, putst, puts, handles,
                   presigns, tu, queue>>
    /\ workerFrame

\* ---- cli_progress.table_update, one sys.stdout.write at a time ----------
\* `with PRINT_LOCK:` may be entered
LockFree == lock = NoOne

table_update(p) ==
    /\ wpc[p] = "table_update"
    /\ LET c == tu[p] IN
       CASE c.pos = 1 ->  \* acquire PRINT_LOCK; write "\x1b[u"
              /\ LockFree
              /\ lock' = p
              /\ cursor' = TermRestore
              /\ calls' = calls \cup {<<Name(p), c.row, c.text>>}
              /\ tu' = [tu EXCEPT ![p].pos = 2]
              /\ UNCHANGED <<screen, wpc, written>>
         [] c.pos = 2 ->  \* write "\x1b[{row_index}B"
              /\ cursor' = TermDown(cursor, c.row)
              /\ tu' = [tu EXCEPT ![p].pos = 3]
              /\ UNCHANGED <<screen, lock, calls, wpc, written>>
         [] c.pos = 3 ->  \* write "\x1b[2K"
              /\ screen' = TermClear(screen, cursor)
              /\ tu' = [tu EXCEPT ![p].pos = 4]
              /\ UNCHANGED <<cursor, lock, calls, wpc, written>>
         [] c.pos = 4 ->  \* write text
              /\ screen' = TermWrite(screen, cursor, c.text)
              /\ written' = [written EXCEPT ![p] = c.text]
              /\ tu' = [tu EXCEPT ![p].pos = 5]
              /\ UNCHANGED <<cursor, lock, calls, wpc>>
         [] c.pos = 5 ->  \* write "\x1b[{_rows - row_index}B"; flush; release
              /\ cursor' = TermDown(cursor, rows - c.row)
              /\ lock' = NoOne
              /\ tu' = [tu EXCEPT ![p] = NoCall]
              /\ wpc' = [wpc EXCEPT ![p] = c.after]
              /\ UNCHANGED <<screen, calls, written>>
    /\ UNCHANGED <<sent, pstat, putst, puts, handles, presigns, outcome, completed,
                   queue>>
    /\ workerFrame

Next ==
    \/ register
    \/ get_access_token
    \/ login
    \/ list_files_upload
    \/ confirm
    \/ table_start
    \/ Submit
    \/ Collect
    \/ ExecutorExit
    \/ Summarize
    \/ \E p \in Items : StartTask(p)
    \/ \E p \in Items : Presign(p)
    \/ \E p \in Items : PutZero(p)
    \/ \E p \in Items : ReadChunk(p)
    \/ \E p \in Items : PutRaises(p)
    \/ \E p \in Items : PutResponse(p)
    \/ \E p \in Items : table_update(p)
    \/ \E p \in Items : Return(p)

Spec == Init /\ [][Next]_vars

\* ---- successive invocations, up to the upload phase ---------------------
\* the command is run again (a new process: module state starts afresh, the
\* token file stays); the upload phase of an invocation is followed in Spec
NextSync ==
    /\ audit
    /\ pc \in {"auth_failed", "auth_crashed", "declined", "nofiles",
               "upload_many"}
    /\ Len(past) + 1 < MaxSyncs
    /\ pc' = "start"
    /\ access' = 0
    /\ files' = <<>>
    /\ rows' = 0
    /\ cursor' = 0
    /\ screen' = BlankScreen(0)
    /\ futures' = <<>>
    /\ wpc' = <<>>
    /\ sent' = <<>>
    /\ pstat' = <<>>
    /\ putst' = <<>>
    /\ puts' = <<>>
    /\ handles' = {}
    /\ presigns' = <<>>
    /\ tu' = <<>>
    /\ outcome' = <<>>
    /\ written' = <<>>
    /\ past' = Append(past, [tok |-> tokAtStart, log |-> log])
    /\ log' = <<>>
    /\ tokAtStart' = tokFile
    /\ UNCHANGED <<tokFile, issued, jobs, lock, queue, completed, collected,
                   results, returned, summary, calls, audit, lastRefresh>>
    /\ UNCHANGED fnVars

NextAuth ==
    \/ register
    \/ get_access_token
    \/ login
    \/ list_files_upload
    \/ confirm
    \/ table_start
    \/ NextSync

SpecAuth == InitAuth /\ [][NextAuth]_vars

TypeOK ==
    /\ pc \in {"start", "login", "enumerate", "confirm", "table_start",
               "upload_many", "collect", "shutdown", "unwind", "summary",
               "summarized", "crashed", "auth_failed", "auth_crashed",
               "declined", "nofiles"}
    /\ cursor \in 0 .. Bottom
    /\ lock \in {NoOne} \cup Items

\* ======================= properties ======================================
Ended == pc \in {"summarized", "crashed"}
CallsOf(i) == {c \in calls : c[1] = i}
ResultsFor(i) == {k \in 1 .. Len(results) : results[k][1] = i}
InWrite == {p \in Items : wpc[p] = "table_update" /\ tu[p].pos > 1}

\* C1: once upload_many has given control back, results holds exactly one
\* entry per enumerated item (N entries, no duplicate, no omission), whatever
\* happened to each item, a network error included.
C1_OneResultPerItem ==
    returned # "no" =>
        /\ Len(results) = N
        /\ \A i \in Items : Cardinality(ResultsFor(i)) = 1

\* C2: a failing item (presign status other than 200, PUT status of 400 or
\* more, or an exception raised by a request) never aborts the batch: sync
\* never ends by an exception, and at the end every item has its own result,
\* a failed one for each failing item.
ItemFailed(p) ==
    \/ outcome[p].kind = "raised"
    \/ pstat[p] # 0 /\ pstat[p] # 200
    \/ putst[p] >= 400
C2_FailureIsolated ==
    /\ pc # "crashed"
    /\ pc = "summarized" =>
          \A p \in Items : \E k \in ResultsFor(Name(p)) :
              ItemFailed(p) => ~results[k][2]

\* C3: once uploading has started, sync ends with the summary X/N printed,
\* N the number of enumerated items and X the number of successful uploads.
C3_SummaryAlwaysPrinted ==
    Ended =>
        summary = <<Cardinality({p \in Items : outcome[p].kind = "result"
                                               /\ outcome[p].ok}), N>>

\* C4: the success flag of an item's result is true exactly when the PUT
\* status is 200, 201 or 204.
C4_SuccessIffPutStatus ==
    \A p \in Items :
        (outcome[p].kind = "result" /\ putst[p] # 0) =>
            (outcome[p].ok <=> putst[p] \in {200, 201, 204})

\* C5: at most one table_update is inside its write sequence at a time, and
\* once all workers are done every row of the table shows exactly the last
\* text its own worker wrote.
C5_RowsHoldOwnText ==
    /\ Cardinality(InWrite) <= 1
    /\ (pc \in {"collect", "shutdown", "unwind", "summary", "summarized",
                "crashed"} /\ AllJoined) =>
          \A p \in Items :
              written[p] # <<>> => screen[Idx(p)] = <<written[p]>>

\* C6: the item at enumeration position i is submitted with row index i and
\* every table_update made for it names row i; no row index is named by the
\* calls of two different items.
C6_RowBinding ==
    /\ \A p \in Submitted : futures[p].idx = p /\ futures[p].item = p
    /\ \A c \in calls : c[2] = c[1]
    /\ \A c, d \in calls : c[2] = d[2] => c[1] = d[1]
C6_Witness ==
    /\ N >= 2
    /\ completed = <<1, 0>>
    /\ CallsOf(0) # {}
    /\ CallsOf(1) # {}

\* C7: every item has exactly one submitted task once dispatch is over (and
\* never more than one), and the number of tasks executing at the same time
\* never exceeds the worker count.
C7_BoundedPool ==
    /\ Cardinality(Running) <= jobs
    /\ \A i \in Items :
          Cardinality({p \in Submitted : futures[p].item = i}) <= 1
    /\ pc \in {"collect", "shutdown", "unwind", "summary", "summarized",
               "crashed"} =>
          \A i \in Items :
              Cardinality({p \in Submitted : futures[p].item = i}) = 1
C7_Witness ==
    /\ N > jobs
    /\ Cardinality(Running) = jobs
    /\ queue # <<>>

\* C8: when upload_many gives control back (by return or by exception) every
\* submitted task has run to completion.
C8_AllTasksJoined ==
    returned # "no" =>
        \A p \in Items : wpc[p] = "done" /\ outcome[p].kind # "none"
C8_Witness ==
    /\ returned = "raise"
    /\ \E p, q \in Items :
          /\ outcome[p].kind = "raised"
          /\ outcome[q].kind = "result"
          /\ completed = <<p, q>>

\* C9: after a presign status other than 200 the task issues no PUT, its only
\* table_update is the presign failure line with that status, written to its
\* own row, and its result is a failure.
C9_PresignFailureStops ==
    \A p \in Items :
        (pstat[p] # 0 /\ pstat[p] # 200) =>
            /\ puts[p] = <<>>
            /\ putst[p] = 0
            /\ wpc[p] \in {"table_update", "ret", "done"}
            /\ CallsOf(Name(p)) \subseteq
                   {<<Name(p), Idx(p), PresignFailText(Name(p), pstat[p])>>}
            /\ wpc[p] \in {"ret", "done"} =>
                   CallsOf(Name(p)) =
                       {<<Name(p), Idx(p), PresignFailText(Name(p), pstat[p])>>}
            /\ wpc[p] = "done" => outcome[p] = Result(Name(p), FALSE)
C9_Witness ==
    \E p \in Items :
        /\ pstat[p] = 403
        /\ wpc[p] = "done"
        /\ outcome[p] = Result(Name(p), FALSE)

\* C10 (as claimed): a zero-byte file whose presign succeeded issues one PUT
\* with an empty body and Content-Length 0, makes no progress write and
\* returns success = true.
C10_ZeroByteAlwaysSucceeds ==
    \A p \in Items :
        (Submitted = Items /\ Size(Name(p)) = 0 /\ pstat[p] = 200
         /\ wpc[p] = "done") =>
            /\ puts[p] = <<PutRequest(0, 0)>>
            /\ \A c \in CallsOf(Name(p)) : c[3][1] # "progress"
            /\ outcome[p] = Result(Name(p), TRUE)

\* C10 (amended): a zero-byte file whose presign succeeded issues one PUT
\* with an empty body and Content-Length 0 and makes no progress write (its
\* only row write is the zero-byte line); its result is success for a PUT
\* status of 200, 201 or 204 and failure for a status of 400 or more.
C10_ZeroByteUpload ==
    \A p \in Submitted :
        (Size(Name(p)) = 0 /\ pstat[p] = 200) =>
            /\ puts[p] = <<PutRequest(0, 0)>>
            /\ sent[p] = 0
            /\ CallsOf(Name(p)) \subseteq
                   {<<Name(p), Idx(p), ZeroByteText(Name(p), putst[p])>>}
            /\ outcome[p].kind = "result" =>
                   /\ putst[p] \in {200, 201, 204} => outcome[p].ok
                   /\ putst[p] >= 400 => ~outcome[p].ok
                   /\ CallsOf(Name(p)) # {}
C10_Witness ==
    \E p, q \in Submitted :
        /\ Size(Name(p)) = 0 /\ putst[p] = 204
        /\ outcome[p] = Result(Name(p), TRUE)
        /\ Size(Name(q)) = 0 /\ putst[q] = 500
        /\ outcome[q] = Result(Name(q), FALSE)


\* ---- properties of the auth phase (SpecAuth) ----------------------------
\* every invocation so far, the running one last
AllSyncs == Append(past, [tok |-> tokAtStart, log |-> log])
EvsOf(L, kind) == {j \in DOMAIN L : L[j].ev = kind}
AuthRequests == {"register", "refresh", "password"}

\* C11: sync tries the auth strategies in a fixed precedence.  An invocation
\* that starts with no stored token makes only the registration exchange; one
\* that starts with a stored token makes the silent refresh first, before any
\* prompt, and never registers; the password login is made only after the
\* refresh of the same invocation was refused; and the invocation after a
\* registration that stored a token starts with a refresh of that token.
C11_AuthPrecedence ==
    \A i \in DOMAIN AllSyncs :
        LET L == AllSyncs[i].log
            t == AllSyncs[i].tok
        IN  /\ t = 0 => EvsOf(L, "refresh") \cup EvsOf(L, "password") = {}
            /\ t # 0 => /\ EvsOf(L, "register") = {}
                        /\ L # <<>> => /\ L[1].ev = "refresh"
                                       /\ L[1].rid = t
            /\ \A j \in EvsOf(L, "password") :
                  /\ j = 3
                  /\ L[1].ev = "refresh" /\ L[1].status # AuthOk
                  /\ L[2].ev = "prompt"
            /\ \A j \in EvsOf(L, "register") :
                  (L[j].status = RegisterOk /\ i < Len(AllSyncs)
                       /\ AllSyncs[i + 1].tok # 0 /\ AllSyncs[i + 1].log # <<>>)
                  => /\ AllSyncs[i + 1].log[1].ev = "refresh"
                     /\ AllSyncs[i + 1].log[1].rid = AllSyncs[i + 1].tok

\* a registration succeeded and the next invocation got its access token from
\* the refresh endpoint without a prompt
C11_Witness ==
    /\ Len(past) = 1
    /\ past[1].tok = 0
    /\ \E j \in EvsOf(past[1].log, "register") :
          past[1].log[j].status = RegisterOk
    /\ pc = "enumerate"
    /\ log = <<Ev("refresh", AuthOk, tokAtStart, tokAtStart)>>

\* C12: the stored refresh token is rotated on every successful exchange.
\* The token file always holds the refresh value of the latest response that
\* carried one, and over any sequence of invocations every refresh request
\* sent that latest value, never an older one.
C12_RefreshRotation ==
    /\ tokFile = lastRefresh
    /\ \A i \in DOMAIN AllSyncs :
          \A j \in EvsOf(AllSyncs[i].log, "refresh") :
              /\ AllSyncs[i].log[j].rid = AllSyncs[i].log[j].latest
              /\ AllSyncs[i].log[j].rid # 0

\* two invocations refreshed in a row; the second sent the value the first
\* one received, not the one the first one sent
C12_Witness ==
    /\ Len(past) = 1
    /\ past[1].log # <<>>
    /\ past[1].log[1].ev = "refresh"
    /\ past[1].log[1].status = AuthOk
    /\ log # <<>>
    /\ log[1].ev = "refresh"
    /\ log[1].rid # past[1].log[1].rid
    /\ log[1].rid = tokAtStart
    /\ tokFile # tokAtStart

\* C13: when authentication fails sync stops with no file touched.  In a
\* state where sync has given up on authentication nothing was enumerated,
\* the table was not initialised and no presign or PUT request was made; and
\* whatever was enumerated, drawn or requested was so with an access token
\* in hand.
C13_AuthFailureTouchesNothing ==
    /\ pc \in {"auth_failed", "auth_crashed"} =>
          /\ access = 0
          /\ files = <<>>
          /\ rows = 0
          /\ screen = BlankScreen(0)
          /\ calls = {}
          /\ futures = <<>>
    /\ (files # <<>> \/ rows # 0 \/ calls # {}
            \/ pc \notin {"start", "login", "auth_failed", "auth_crashed"})
       => access # 0

\* the refresh of a stored token and then the password login were refused
C13_Witness ==
    /\ pc = "auth_failed"
    /\ registered

\* the last entry of a log is an exchange that failed: a refused
\* registration, refresh or login, or mismatching passwords
FailedAttempt(L) ==
    LET e == L[Len(L)]
    IN  \/ e.ev = "register" /\ e.status # RegisterOk
        \/ e.ev \in {"refresh", "password"} /\ e.status # AuthOk
        \/ e.ev = "prompt"

\* C14: a failed auth exchange never writes the token file.  A step in which
\* register got a status other than 201, the refresh or the login a status
\* other than 200, or the two passwords differed, leaves the stored token as
\* it was.
C14_FailedExchangeKeepsToken ==
    [][(Len(log') > Len(log) /\ FailedAttempt(log')) => tokFile' = tokFile]_vars

\* a refused refresh and a refused login in one invocation, an earlier
\* invocation having rotated the token
C14_Witness ==
    /\ pc = "auth_failed"
    /\ Len(log) = 3
    /\ log[1].ev = "refresh" /\ log[1].status = 401
    /\ log[3].ev = "password" /\ log[3].status = 401
    /\ tokFile = tokAtStart
    /\ tokFile = Refresh(2)

\* C15: register, get_access_token and login never let an exception reach
\* sync, whatever the network or the server does.
C15_NoAuthException == pc # "auth_crashed"

\* C16: the access token is never persisted.  The token file is empty or
\* holds the refresh value of the latest pair the server issued, never an
\* access value, and the access token sync holds is not the stored value.
C16_OnlyRefreshStored ==
    /\ tokFile = 0 \/ tokFile = Refresh(issued)
    /\ \A k \in 1..issued : tokFile # Access(k)
    /\ access # 0 => /\ access = Access(issued)
                     /\ tokFile # access

\* after two successful exchanges the file holds the second refresh value
\* and sync holds the second access value
C16_Witness ==
    /\ Len(past) = 1
    /\ pc = "confirm"
    /\ issued > 2
    /\ access = Access(issued)
    /\ tokFile = Refresh(issued)

\* the phases of a sync invocation: 0 Unauthenticated, 1 Authenticating,
\* 2 Enumerated, 3 Confirmed, 4 Uploading, 5 Summarized; an invocation that
\* stops early stays in the phase it stopped in
Phase ==
    CASE pc = "start" -> 0
      [] pc \in {"login", "enumerate", "auth_failed", "auth_crashed"} -> 1
      [] pc \in {"confirm", "nofiles", "declined"} -> 2
      [] pc = "table_start" -> 3
      [] pc \in {"upload_many", "collect", "shutdown", "unwind", "summary",
                 "crashed"} -> 4
      [] pc = "summarized" -> 5
NoRequests ==
    /\ calls = {}
    /\ \A p \in DOMAIN presigns : presigns[p] = 0 /\ puts[p] = <<>>

\* C17: the phases are passed in order.  No step goes back to an earlier
\* phase or skips one; the table is initialised and requests are made only in
\* the Uploading phase, which is entered only from Confirmed, with an access
\* token and at least one item.
C17_PhaseOrder ==
    /\ [][Phase' = Phase \/ Phase' = Phase + 1]_vars
    /\ [](Phase >= 4 => access # 0 /\ N >= 1 /\ rows = N)
    /\ [](Phase < 4 => rows = 0 /\ NoRequests)

\* an invocation that went through all six phases
C17_Witness ==
    /\ pc = "summarized"
    /\ access # 0
    /\ N >= 1

\* the operator's answer to the confirmation prompt was no
Declined ==
    /\ log # <<>>
    /\ log[Len(log)] = Ev("confirm", 0, 0, 0)

\* C18 as stated: after the operator declined nothing was requested or drawn
\* and the stored refresh token is the one stored when the invocation began.
C18_DeclineNoSideEffects ==
    Declined => /\ rows = 0
                /\ NoRequests
                /\ tokFile = tokAtStart

\* C18, amended: after the operator declined, sync has stopped with nothing
\* requested and no table drawn; the stored refresh token is the one returned
\* by this invocation's auth exchange, which replaced the one stored before.
C18_DeclineKeepsRotation ==
    Declined => /\ pc = "declined"
                /\ rows = 0
                /\ screen = BlankScreen(0)
                /\ NoRequests
                /\ tokFile = lastRefresh
                /\ tokFile # tokAtStart
                /\ tokFile = Refresh(issued)

\* a registered operator declined after the silent refresh rotated the token
C18_Witness ==
    /\ pc = "declined"
    /\ log = <<Ev("refresh", AuthOk, tokAtStart, tokAtStart),
               Ev("confirm", 0, 0, 0)>>
    /\ tokFile # tokAtStart

\* a root that does not exist, or holds nothing but reserved files, lists
\* nothing
NothingEligibleListsNothing ==
    \A tree \in Trees :
        (~tree.exists \/ \A j \in DOMAIN tree.entries :
                             tree.entries[j].name = Reserved)
        => Walk(tree) = <<>>

\* C19: an empty enumeration ends sync at once.  Whenever enumeration has
\* run and found nothing (no directory, an empty one, or only reserved files),
\* sync is at its "No files to sync." end: it never asks for confirmation,
\* draws no table and makes no request.
C19_EmptyShortCircuits ==
    /\ NothingEligibleListsNothing
    /\ (Phase >= 2 /\ N = 0) => /\ pc = "nofiles"
                                /\ rows = 0
                                /\ NoRequests
                                /\ summary = <<>>

\* authentication succeeded and nothing was found
C19_Witness ==
    /\ pc = "nofiles"
    /\ access # 0
    /\ files = <<>>

\* C20: once the coordinator has given control back, the last text written
\* to any row is a final status line, not a progress line.
C20_FinalStatusLast ==
    returned # "no" =>
        \A p \in Items : written[p] # <<>> => written[p][1] # "progress"

\* ---- properties of the progress table -----------------------------------
\* C21: table_update(i, text) changes exactly row i.  The step of a call that
\* erases a line or writes its text leaves every line other than row i as it
\* was, and once the text is written row i holds that text alone.
C21_UpdateChangesOnlyItsRow ==
    [][\A p \in Items :
          (wpc[p] = "table_update" /\ tu[p].pos \in {3, 4}
               /\ tu'[p].pos = tu[p].pos + 1)
          => /\ \A l \in DOMAIN screen \ {tu[p].row} : screen'[l] = screen[l]
             /\ tu[p].pos = 4 => screen'[tu[p].row] = <<tu[p].text>>]_vars

\* C22: between table_update calls, once one was made, the cursor rests on
\* the line below the table (table origin + row count).
C22_CursorBelowTable ==
    (LockFree /\ calls # {}) => cursor = rows

\* C23: the table is set up once, for as many rows as there are items,
\* before any worker runs.  Whenever a task has started or a table_update was
\* called, table_start has run and the recorded row count is the number of
\* enumerated items; before that nothing was drawn; and once the coordinator
\* has given control back no task is running or inside table_update.
C23_TableSetUpFirst ==
    /\ (calls # {} \/ Running # {} \/ \E p \in Items : wpc[p] = "done")
       => /\ Phase >= 4
          /\ rows = N
          /\ DOMAIN screen = 0 .. (N + 1)
    /\ Phase < 4 => /\ calls = {}
                    /\ rows = 0
                    /\ screen = BlankScreen(0)
    /\ returned # "no" => /\ Running = {}
                          /\ LockFree
                          /\ \A p \in Items : tu[p] = NoCall

\* two rows were updated and the coordinator has returned
C23_Witness ==
    /\ returned = "value"
    /\ N >= 2
    /\ rows = N
    /\ \A p \in Items : written[p] # <<>>

\* ---- properties of the whole invocation ---------------------------------
\* C24: the token file is touched only in the auth phase.  A step that
\* changes the token file (or has the server issue a pair) is a step of the
\* auth phase with no task submitted, and while any task is submitted or
\* running sync is past the points where the token file is read.
C24_TokenFileOnlyInAuth ==
    /\ [][(tokFile' # tokFile \/ issued' # issued \/ access' # access)
             => /\ pc \in {"start", "login"}
                /\ Submitted = {}
                /\ Running = {}]_vars
    /\ [](Submitted # {} => /\ pc \notin {"start", "login", "enumerate"}
                            /\ tokFile = Refresh(issued)
                            /\ access = Access(issued))

\* a worker is streaming while another has finished; the token file holds
\* what the auth phase left
C24_Witness ==
    /\ \E p \in Items : wpc[p] = "stream" /\ sent[p] > 0
    /\ \E p \in Items : wpc[p] = "done"
    /\ tokFile = Refresh(issued)

\* C25: nothing is retried.  Each item causes at most one presign request
\* and at most one PUT request whatever their outcome, and sync passes the
\* point where it registers or refreshes, and the point where it logs in, at
\* most once and never returns to them.
C25_NoRetries ==
    /\ [](\A p \in Items : presigns[p] <= 1 /\ Len(puts[p]) <= 1)
    /\ [][pc' # pc => /\ pc' # "start"
                      /\ pc' = "login" => pc = "start"]_vars

\* one item ended on a refused presign and another on a refused PUT, each
\* after a single request
C25_Witness ==
    /\ pc = "summarized"
    /\ \E p \in Items : /\ PresignFailed(pstat[p]) /\ pstat[p] # 0
                        /\ presigns[p] = 1 /\ puts[p] = <<>>
    /\ \E p \in Items : /\ putst[p] = 500
                        /\ presigns[p] = 1 /\ Len(puts[p]) = 1

\* ---- helper calls, studied one at a time --------------------------------
\* while a helper is under study no sync is running
NoSync ==
    /\ InitState
    /\ tokFile = 0
    /\ jobs = 1
    /\ audit = FALSE
    /\ tokAtStart = 0
    /\ lastRefresh = 0

\* ---- enumeration and object names (cli_sync) -----------------------------
NameLimit == 256
MaxLead == 2
\* str.replace(old, new) for one-character strings
Replace(s, old, new) == [i \in 1 .. Len(s) |-> IF s[i] = old THEN new ELSE s[i]]
\* str.lstrip(ch)
RECURSIVE LStrip(_, _)
LStrip(s, ch) == IF s # <<>> /\ Head(s) = ch THEN LStrip(Tail(s), ch) ELSE s
\* s[:n]
Prefix(s, n) == SubSeq(s, 1, Min(Len(s), n))
\* mutant: the name is cut before the leading slashes are stripped
object_name_cut_first(relative_name, sep) ==
    LStrip(Prefix(Replace(relative_name, sep, "/"), NameLimit), "/")
\* relative_name.replace(os.sep, "/").lstrip("/")[:256]
object_name(relative_name, sep) ==
    Prefix(LStrip(Replace(relative_name, sep, "/"), "/"), NameLimit)

\* relative names: lead separators, then len characters of which every third
\* is a separator; ch is the separator character the name is written with
RelName(lead, len, ch) ==
    [i \in 1 .. (lead + len) |->
        IF i <= lead \/ (i - lead) % 3 = 0 THEN ch ELSE "a"]
NameLens == {0, 1, 2, 4, NameLimit - 1, NameLimit, NameLimit + 1, NameLimit + 2}
SepChars == {"/", "\\"}

object_name_call ==
    \E lead \in 0 .. MaxLead : \E len \in NameLens :
    \E ch \in SepChars : \E sep \in SepChars :
        /\ arg' = [fn |-> "object_name", rel |-> RelName(lead, len, ch),
                   sep |-> sep]
        /\ out' = object_name(RelName(lead, len, ch), sep)
        /\ UNCHANGED env
        /\ UNCHANGED syncVars

list_files_upload_call ==
    \E tree \in Trees :
        /\ arg' = [fn |-> "list_files_upload", tree |-> tree]
        /\ out' = Listing(tree)
        /\ UNCHANGED env
        /\ UNCHANGED syncVars

InitList == NoSync /\ NoHelper
NextList == object_name_call \/ list_files_upload_call
SpecList == InitList /\ [][NextList]_vars

\* the number of leading characters of s that are in set
LeadCount(s, set) ==
    Cardinality({i \in 1 .. Len(s) : \A j \in 1 .. i : s[j] \in set})

\* C26: the object name is the relative name with the platform's separator
\* turned into "/", the leading slashes dropped, and what remains cut to its
\* first 256 characters: never longer than 256, exactly 256 when the
\* normalised name is longer than that, never starting with a slash.
C26_ObjectName ==
    arg.fn = "object_name" =>
        LET k == LeadCount(arg.rel, {"/", arg.sep})
            rest == Len(arg.rel) - k
        IN  /\ Len(out) <= NameLimit
            /\ Len(out) = Min(rest, NameLimit)
            /\ rest > NameLimit => Len(out) = NameLimit
            /\ out # <<>> => out[1] # "/"
            /\ \A i \in 1 .. Len(out) :
                  out[i] = IF arg.rel[k + i] = arg.sep THEN "/"
                           ELSE arg.rel[k + i]

\* a name written with backslashes on a platform whose separator is the
\* backslash, with leading separators and more than 256 characters after them
C26_Witness ==
    /\ arg.fn = "object_name"
    /\ arg.sep = "\\"
    /\ Len(arg.rel) >= NameLimit + 3
    /\ arg.rel[1] = "\\" /\ arg.rel[2] = "\\" /\ arg.rel[3] = "a"
    /\ Len(out) = NameLimit
    /\ out[3] = "/"

\* C27: enumeration yields one item per file under the root whose name is
\* not "tokens", whatever directory it is in; files named "tokens" are left
\* out at every depth, nothing else is left out, nothing is listed twice and
\* nothing is listed that is not in the tree.
C27_ListingExcludesTokens ==
    arg.fn = "list_files_upload" =>
        LET es == arg.tree.entries
        IN  /\ \A i \in DOMAIN es :
                  Cardinality({j \in DOMAIN out : out[j] = es[i]})
                      = IF es[i].name = Reserved THEN 0 ELSE 1
            /\ \A j \in DOMAIN out : \E i \in DOMAIN es : es[i] = out[j]

\* a tree with a file named tokens in a subdirectory and an ordinary file in
\* a directory named tokens: only the second is listed
C27_Witness ==
    /\ arg.fn = "list_files_upload"
    /\ Len(arg.tree.entries) = 2
    /\ \E i \in 1 .. 2 : /\ arg.tree.entries[i].name = Reserved
                         /\ arg.tree.entries[i].dir = "sub"
    /\ \E i \in 1 .. 2 : /\ arg.tree.entries[i].name = "data"
                         /\ arg.tree.entries[i].dir = Reserved
    /\ Len(out) = 1
    /\ out[1].name = "data"

\* ---- the token file (cli_auth.registered, ensure_data_dir) ---------------
MaxText == 3
Whitespace == {" ", "\n", "\t"}
TextChars == Whitespace \cup {"t"}
Texts == UNION {[1 .. k -> TextChars] : k \in 0 .. MaxText}
\* TOK_FILE: absent, or present with some text
NoFile == [exists |-> FALSE, text |-> <<>>]
File(text) == [exists |-> TRUE, text |-> text]
TokenFiles == {NoFile} \cup {File(t) : t \in Texts}

\* str.strip(): whitespace removed at both ends
RECURSIVE LStripWs(_)
LStripWs(s) ==
    IF s # <<>> /\ Head(s) \in Whitespace THEN LStripWs(Tail(s)) ELSE s
RECURSIVE RStripWs(_)
RStripWs(s) ==
    IF s # <<>> /\ s[Len(s)] \in Whitespace
    THEN RStripWs(SubSeq(s, 1, Len(s) - 1)) ELSE s
Strip(s) == RStripWs(LStripWs(s))

\* mutant: the contents are not trimmed
is_registered_untrimmed(file) == file.exists /\ file.text # <<>>
\* registered: TOK_FILE.exists() and TOK_FILE.read_text().strip() != ""
is_registered(file) == file.exists /\ Strip(file.text) # <<>>

registered_call ==
    /\ arg' = [fn |-> "registered"]
    /\ out' = is_registered(env)
    /\ UNCHANGED env
    /\ UNCHANGED syncVars

\* ensure_data_dir: if not TOK_FILE.exists(): TOK_FILE.touch(mode=0o600)
ensure_data_dir_call ==
    /\ arg' = [fn |-> "ensure_data_dir"]
    /\ out' = NoValue
    /\ env' = IF env.exists THEN env ELSE File(<<>>)
    /\ UNCHANGED syncVars

\* TOK_FILE.write_text(data["refresh"]) of an exchange
write_text_call ==
    \E text \in Texts :
        /\ arg' = [fn |-> "write_text"]
        /\ out' = NoValue
        /\ env' = File(text)
        /\ UNCHANGED syncVars

InitTok ==
    /\ NoSync
    /\ arg = NoValue
    /\ out = NoValue
    /\ env \in TokenFiles
NextTok == registered_call \/ ensure_data_dir_call \/ write_text_call
SpecTok == InitTok /\ [][NextTok]_vars

\* C28: registered() is true exactly when the token file exists and holds a
\* character that is not whitespace, and the call leaves the file as it was;
\* a file that was just created empty, or holds only whitespace, is not a
\* registration.
C28_RegisteredIffToken ==
    /\ [](arg.fn = "registered" =>
             (out <=> (env.exists /\ \E i \in DOMAIN env.text :
                                         env.text[i] \notin Whitespace)))
    /\ [][arg'.fn = "registered" => env' = env]_vars
    /\ []((arg.fn = "ensure_data_dir" /\ env.text = <<>>) => ~is_registered(env))

\* registered() answered no for an existing file that holds only whitespace
C28_Witness ==
    /\ arg.fn = "registered"
    /\ env.exists
    /\ Len(env.text) >= 2
    /\ out = FALSE

\* ---- executors.utils.benchmarks_func.sbatch_launch -----------------------
\* env is [at, cmds, held, released, stdout, job_id]: the position in
\* sbatch_launch, the commands run so far, the controller's held and released
\* jobs, sbatch's standard output and the parsed id
BenchNames == {"flops", "mem"}
Partitions == {"", "scc-cpu"}
NodeCounts == {1, 2}
JobIds == {7, 42}
SlurmIdle ==
    [at |-> "idle", cmds |-> <<>>, held |-> {}, released |-> {},
     stdout |-> <<>>, job_id |-> 0]
NoResult == [kind |-> "none", id |-> 0]
Raises == [kind |-> "raise", id |-> 0]
Returns(id) == [kind |-> "return", id |-> id]
Cmd(argv, id, ok) == [argv |-> argv, id |-> id, ok |-> ok]

DigitChars == <<"0", "1", "2", "3", "4", "5", "6", "7", "8", "9">>
\* the decimal digits of a job id below 100, as sbatch prints them
Decimal(n) ==
    IF n >= 10 THEN <<DigitChars[(n \div 10) + 1], DigitChars[(n % 10) + 1]>>
    ELSE <<DigitChars[n + 1]>>
\* what sbatch --parsable prints: "jobid" or "jobid;cluster", with a newline;
\* or nothing usable
Stdouts(id) ==
    {Decimal(id),
     Decimal(id) \o <<"\n">>,
     Decimal(id) \o <<";", "c", "\n">>,
     <<"\n">>,
     <<"x", "\n">>}

\* str.split(";")[0]
RECURSIVE BeforeSemicolon(_)
BeforeSemicolon(s) ==
    IF s = <<>> \/ Head(s) = ";" THEN <<>>
    ELSE <<Head(s)>> \o BeforeSemicolon(Tail(s))
DigitValue(c) == (CHOOSE d \in 1 .. 10 : DigitChars[d] = c) - 1
IsDigit(c) == \E d \in 1 .. 10 : DigitChars[d] = c
RECURSIVE IntOf(_, _)
IntOf(s, acc) ==
    IF s = <<>> THEN acc ELSE IntOf(Tail(s), 10 * acc + DigitValue(Head(s)))
\* int(...): ValueError (here -1) unless the text is a run of digits
ParseInt(s) ==
    IF s # <<>> /\ \A i \in DOMAIN s : IsDigit(s[i]) THEN IntOf(s, 0)
    ELSE 0 - 1
\* int(completed.stdout.strip().split(";")[0])
job_id_of(stdout) == ParseInt(Strip(BeforeSemicolon(Strip(stdout))))

\* mutant: the job is not submitted held
SbatchArgvNoHold(partition) ==
    <<"sbatch", "--parsable">>
    \o (IF partition # "" THEN <<"--partition">> ELSE <<>>)
    \o <<"--nodes", "--job-name", "--output", "--error", "job_start.sh">>
\* cmd = ["sbatch", "--parsable", "--hold"] + ...
SbatchArgv(partition) ==
    <<"sbatch", "--parsable", "--hold">>
    \o (IF partition # "" THEN <<"--partition">> ELSE <<>>)
    \o <<"--nodes", "--job-name", "--output", "--error", "job_start.sh">>

sbatch_launch_call ==
    /\ env.at \in {"idle", "done"}
    /\ \E b \in BenchNames : \E part \in Partitions : \E n \in NodeCounts :
          arg' = [fn |-> "sbatch_launch", bench_name |-> b,
                  partition |-> part, nodes |-> n]
    /\ env' = [SlurmIdle EXCEPT !.at = "sbatch"]
    /\ out' = NoResult
    /\ UNCHANGED syncVars

\* subprocess.run(cmd, check=True, capture_output=True, text=True)
run_sbatch ==
    /\ env.at = "sbatch"
    /\ \/ \* sbatch exits non-zero: CalledProcessError, printed and re-raised
          /\ env' = [env EXCEPT
                       !.cmds = Append(@, Cmd(SbatchArgv(arg.partition), 0,
                                              FALSE)),
                       !.at = "done"]
          /\ out' = Raises
       \/ \E id \in JobIds : \E text \in Stdouts(id) :
             /\ env' = [env EXCEPT
                          !.cmds = Append(@, Cmd(SbatchArgv(arg.partition), id,
                                                 TRUE)),
                          !.held = IF "--hold" \in {SbatchArgv(arg.partition)[i] :
                                        i \in DOMAIN SbatchArgv(arg.partition)}
                                   THEN {id} ELSE {},
                          !.stdout = text,
                          !.at = "parse"]
             /\ UNCHANGED out
    /\ UNCHANGED arg
    /\ UNCHANGED syncVars

\* job_id = int(completed.stdout.strip().split(";")[0]); os.makedirs(job dir)
parse_job_id ==
    /\ env.at = "parse"
    /\ IF job_id_of(env.stdout) < 0
       THEN /\ env' = [env EXCEPT !.at = "done"]
            /\ out' = Raises
       ELSE /\ env' = [env EXCEPT !.job_id = job_id_of(env.stdout),
                                  !.at = "release"]
            /\ UNCHANGED out
    /\ UNCHANGED arg
    /\ UNCHANGED syncVars

\* subprocess.run(["scontrol", "release", str(job_id)], check=True);
\* return job_id
run_release ==
    /\ env.at = "release"
    /\ \E ok \in BOOLEAN :
          /\ env' = [env EXCEPT
                       !.cmds = Append(@, Cmd(<<"scontrol", "release">>,
                                              env.job_id, ok)),
                       !.held = IF ok THEN @ \ {env.job_id} ELSE @,
                       !.released = IF ok /\ env.job_id \in env.held
                                    THEN @ \cup {env.job_id} ELSE @,
                       !.at = "done"]
          /\ out' = IF ok THEN Returns(env.job_id) ELSE Raises
    /\ UNCHANGED arg
    /\ UNCHANGED syncVars

InitSlurm ==
    /\ NoSync
    /\ arg = NoValue
    /\ out = NoResult
    /\ env = SlurmIdle
NextSlurm == sbatch_launch_call \/ run_sbatch \/ parse_job_id \/ run_release
SpecSlurm == InitSlurm /\ [][NextSlurm]_vars

\* C29: sbatch_launch submits the job held and releases it only after the
\* submission succeeded.  The first command is sbatch --parsable --hold; a
\* release is the second command, follows a successful sbatch and names the
\* id sbatch assigned, which is also the value returned; when sbatch fails
\* the call raises and no release is issued.
C29_ReleaseAfterHeldSubmit ==
    LET c == env.cmds
    IN  /\ c # <<>> => /\ SubSeq(c[1].argv, 1, 3)
                            = <<"sbatch", "--parsable", "--hold">>
                       /\ c[1].ok => (c[1].id \in env.held
                                         \/ c[1].id \in env.released)
        /\ \A k \in DOMAIN c :
              c[k].argv[1] = "scontrol"
              => /\ k = 2
                 /\ c[1].argv[1] = "sbatch"
                 /\ c[1].ok
                 /\ c[k].argv = <<"scontrol", "release">>
                 /\ c[k].id = c[1].id
        /\ (c # <<>> /\ ~c[1].ok) => /\ out = Raises
                                    /\ Len(c) = 1
                                    /\ env.at = "done"
                                    /\ env.released = {}
        /\ out.kind = "return" => /\ Len(c) = 2
                                  /\ c[2].ok
                                  /\ out.id = c[1].id
                                  /\ env.released = {out.id}
                                  /\ env.held = {}

\* sbatch printed "42;c", the job was released and 42 returned
C29_Witness ==
    /\ arg.fn = "sbatch_launch"
    /\ env.stdout = <<"4", "2", ";", "c", "\n">>
    /\ out = Returns(42)
    /\ env.released = {42}

\* ---- core.add_impl ------------------------------------------------------
\* env is [root, first, created]: for each name the directory under the
\* user root (NoDir: none), the directory the first successful add made, and
\* how many times the name was created
BenchStems == {"a", "b"}
Versions == {1, 2}
\* a source: a .py file, another file, a folder with job_start.sh, a folder
\* without, or a path that does not exist
SourceKinds == {"py", "txt", "dir", "plaindir", "missing"}
Sources == [kind : SourceKinds, stem : BenchStems, data : Versions]
NoDir == [kind |-> "none", data |-> 0, complete |-> FALSE]
\* the directory an add makes out of a source; complete: every file copied
Dir(source, complete) ==
    [kind |-> source.kind, data |-> source.data, complete |-> complete]
EmptyRoot ==
    [root |-> [n \in BenchStems |-> NoDir],
     first |-> [n \in BenchStems |-> NoDir],
     created |-> [n \in BenchStems |-> 0]]
ClickException(msg) == [kind |-> "ClickException", msg |-> msg]
OSError == [kind |-> "OSError", msg |-> ""]
Added(dest) == [kind |-> "return", msg |-> dest]

NeedMsg == "Need a .py file or a folder containing job_start.sh"
\* mutant: any folder is accepted
AcceptedAnyFolder(source) == source.kind \in {"py", "dir", "plaindir"}
\* source.is_file() and source.suffix == ".py", or
\* source.is_dir() and (source / "job_start.sh").exists()
Accepted(source) == source.kind \in {"py", "dir"}
\* dest = user_root / source.stem, or user_root / source.name
DestName(source) == source.stem
\* mutant: an existing destination is not looked for
DestExistsNever(root, name) == FALSE
\* if dest.exists()
DestExists(root, name) == root[name] # NoDir

add_impl ==
    \E source \in Sources :
        /\ arg' = [fn |-> "add_impl", source |-> source]
        /\ IF ~Accepted(source)
           THEN /\ out' = ClickException(NeedMsg)
                /\ UNCHANGED env
           ELSE IF DestExists(env.root, DestName(source))
           THEN /\ out' = ClickException("already exists")
                /\ UNCHANGED env
           ELSE \/ \* dest.mkdir() and the copies, or copytree, succeed
                   /\ env' = [env EXCEPT
                                !.root[DestName(source)] = Dir(source, TRUE),
                                !.first[DestName(source)] =
                                    IF @ = NoDir THEN Dir(source, TRUE) ELSE @,
                                !.created[DestName(source)] = @ + 1]
                   /\ out' = Added(DestName(source))
                \/ \* the directory is made and a copy then fails
                   /\ env' = [env EXCEPT
                                !.root[DestName(source)] = Dir(source, FALSE),
                                !.created[DestName(source)] = @ + 1]
                   /\ out' = OSError
        /\ UNCHANGED syncVars

InitAdd ==
    /\ NoSync
    /\ arg = NoValue
    /\ out = NoValue
    /\ env = EmptyRoot
NextAdd == add_impl
SpecAdd == InitAdd /\ [][NextAdd]_vars

\* C30: an add whose destination name exists fails with "already exists"
\* and changes nothing under the user root; over any sequence of adds each
\* name is created at most once and keeps what the first successful add put
\* there.
C30_AddNeverOverwrites ==
    /\ [][(arg'.fn = "add_impl" /\ Accepted(arg'.source)
              /\ env.root[arg'.source.stem] # NoDir)
          => /\ out' = ClickException("already exists")
             /\ env'.root = env.root]_vars
    /\ [](\A n \in BenchStems :
             /\ env.created[n] <= 1
             /\ env.first[n] # NoDir => env.root[n] = env.first[n])

\* a folder was added as "a", then adding a.py was refused
C30_Witness ==
    /\ arg.fn = "add_impl"
    /\ arg.source.kind = "py" /\ arg.source.stem = "a"
    /\ out = ClickException("already exists")
    /\ env.root["a"].kind = "dir"
    /\ env.first["a"] = env.root["a"]
    /\ env.created["a"] = 1

\* C31: an add whose source is neither a .py file nor a folder holding
\* job_start.sh raises the ClickException "Need a .py file ..." and leaves
\* the user root as it was: no entry is added.
C31_InvalidSourceRejected ==
    [][(arg'.fn = "add_impl" /\ arg'.source.kind \in {"txt", "plaindir", "missing"})
       => /\ out' = ClickException(NeedMsg)
          /\ env' = env]_vars

\* a folder without job_start.sh was refused while another benchmark exists
C31_Witness ==
    /\ arg.fn = "add_impl"
    /\ arg.source.kind = "plaindir"
    /\ arg.source.stem = "a"
    /\ out = ClickException(NeedMsg)
    /\ env.root["a"] = NoDir
    /\ env.root["b"] # NoDir

\* ---- cli.run / cli_benchmarks.run_impl ----------------------------------
\* env is what is installed: [pkg, py, dirs], the names of the built-in
\* executor modules, of the user's .py files and of the user's folders that
\* hold job_start.sh.  Names are sequences of characters.
RunNames == {<<"s">>, <<"s", "t">>, <<"t">>}
Installs ==
    [pkg : SUBSET RunNames, py : SUBSET {<<"s">>}, dirs : SUBSET RunNames]
\* the name typed after `run` (not blank)
TypedNames == RunNames \cup {<<"s", "t", "x">>}
None == "<None>"
NoNodes == <<None>>
\* partition as positional argument and as -p option
PosPartitions == {None, "", "p"}
OptPartitions == {None, "q"}
\* nodes as positional argument (any text) and as -n option (an integer)
PosNodes == {NoNodes, <<"2">>, <<" ", "2">>, <<"x">>}
OptNodes == {NoNodes, <<"3">>}
Launch(prog, target, args) == [prog |-> prog, target |-> target, args |-> args]

\* n.startswith(choice)
StartsWith(n, choice) ==
    Len(choice) <= Len(n) /\ SubSeq(n, 1, Len(choice)) = choice
\* all_benchmark_names = pkg_modules + user_py_files + user_directories
all_benchmark_names(inst) ==
    {<<"pkg", n>> : n \in inst.pkg} \cup {<<"py", n>> : n \in inst.py}
        \cup {<<"dir", n>> : n \in inst.dirs}
\* matches = [n for n in all_benchmark_names if n.startswith(choice)]
matches(inst, choice) ==
    {m \in all_benchmark_names(inst) : StartsWith(m[2], choice)}
\* mutant: with several matches one of them is taken
ChoiceAnyMatch(inst, name) ==
    IF matches(inst, name) # {}
    THEN (CHOOSE m \in matches(inst, name) : TRUE)[2]
    ELSE name
\* if len(matches) == 1: choice = matches[0]
Choice(inst, name) ==
    IF Cardinality(matches(inst, name)) = 1
    THEN (CHOOSE m \in matches(inst, name) : TRUE)[2]
    ELSE name
\* opt_partition if opt_partition is not None else partition
Effective(opt, pos, none) == IF opt # none THEN opt ELSE pos
\* int(str(effective_nodes).strip()), None when absent, blank or not a number
normalized_nodes(nodes) ==
    IF nodes = NoNodes \/ Strip(nodes) = <<>> \/ ParseInt(Strip(nodes)) < 0
    THEN NoNodes
    ELSE Decimal(ParseInt(Strip(nodes)))
extend_slurm_args(partition, nodes) ==
    (IF partition # None /\ partition # ""
     THEN <<[flag |-> "--partition", text |-> partition, digits |-> <<>>]>>
     ELSE <<>>)
    \o (IF normalized_nodes(nodes) # NoNodes
        THEN <<[flag |-> "--nodes", text |-> "",
                digits |-> normalized_nodes(nodes)]>>
        ELSE <<>>)
\* the subprocess.run calls of one `run`
Launches(inst, a) ==
    LET choice == Choice(inst, a.name)
        slurm == extend_slurm_args(Effective(a.opt_partition, a.partition, None),
                                   Effective(a.opt_nodes, a.nodes, NoNodes))
    IN  IF all_benchmark_names(inst) = {} THEN <<>>
        ELSE IF choice \in inst.pkg
             THEN <<Launch("python -m", choice, slurm)>>
        ELSE IF choice \in inst.py
             THEN <<Launch("python", choice, slurm)>>
        ELSE IF choice \in inst.dirs
             THEN <<Launch("bash", choice, <<>>)>>
        ELSE <<>>

run ==
    \E name \in TypedNames :
    \E part \in PosPartitions : \E opart \in OptPartitions :
    \E nodes \in PosNodes : \E onodes \in OptNodes :
        /\ arg' = [fn |-> "run", name |-> name, partition |-> part,
                   opt_partition |-> opart, nodes |-> nodes,
                   opt_nodes |-> onodes]
        /\ out' = Launches(env, arg')
        /\ UNCHANGED env
        /\ UNCHANGED syncVars

InitRun ==
    /\ NoSync
    /\ arg = NoValue
    /\ out = NoValue
    /\ env \in Installs
NextRun == run
SpecRun == InitRun /\ [][NextRun]_vars

\* what the name stands for: itself when it is the name of something
\* installed, else the one installed name it is a prefix of, else nothing
Installed == env.pkg \cup env.py \cup env.dirs
Resolutions ==
    IF arg.name \in Installed THEN {arg.name}
    ELSE IF Cardinality(matches(env, arg.name)) = 1
         THEN {m[2] : m \in matches(env, arg.name)}
         ELSE {}
\* the partition and nodes arguments given, the option before the positional
GivenSlurmArgs ==
    LET part == IF arg.opt_partition # None THEN arg.opt_partition
                ELSE arg.partition
        nodes == IF arg.opt_nodes # NoNodes THEN arg.opt_nodes ELSE arg.nodes
    IN  (IF part \in {"p", "q"}
         THEN <<[flag |-> "--partition", text |-> part, digits |-> <<>>]>>
         ELSE <<>>)
        \o (IF nodes \in {<<"2">>, <<" ", "2">>}
            THEN <<[flag |-> "--nodes", text |-> "", digits |-> <<"2">>]>>
            ELSE IF nodes = <<"3">>
            THEN <<[flag |-> "--nodes", text |-> "", digits |-> <<"3">>]>>
            ELSE <<>>)

\* C32: run <name> launches exactly one subprocess for a name that stands
\* for an installed benchmark: python -m <executors package>.<name> with the
\* given partition and nodes arguments for a built-in module, bash
\* <user root>/<name>/job_start.sh with no argument for a user folder; a
\* name that stands for nothing, or is a prefix of several names and none of
\* them exactly, launches nothing.
C32_RunLaunchesOne ==
    arg.fn = "run" =>
        /\ Len(out) <= 1
        /\ Resolutions = {} => out = <<>>
        /\ \A n \in Resolutions :
              /\ Len(out) = 1
              /\ out[1].target = n
              /\ n \in env.pkg
                 => out[1] = Launch("python -m", n, GivenSlurmArgs)
              /\ n \in env.dirs \ (env.pkg \cup env.py)
                 => out[1] = Launch("bash", n, <<>>)

\* "s" typed with the built-in st and the user folder t installed: the
\* built-in module was started with --partition q --nodes 2
C32_Witness ==
    /\ arg.fn = "run"
    /\ arg.name = <<"s">>
    /\ env.pkg = {<<"s", "t">>} /\ env.py = {} /\ env.dirs = {<<"t">>}
    /\ arg.opt_partition = "q" /\ arg.partition = "p"
    /\ arg.nodes = <<" ", "2">> /\ arg.opt_nodes = NoNodes
    /\ out = <<Launch("python -m", <<"s", "t">>,
                      <<[flag |-> "--partition", text |-> "q", digits |-> <<>>],
                        [flag |-> "--nodes", text |-> "", digits |-> <<"2">>]>>)>>

\* the texts that carry the completion mark ("✓ ...") and the failure mark
\* ("✗ ...") of upload_one
CompletionMarks == {"done", "zero-byte"}
FailureMarks == {"fail", "presign"}

\* C33: for every item whose upload returned, the last text of its row
\* carries the completion mark if and only if the success flag of the result
\* is true, and otherwise the failure mark with the status code, for
\* zero-byte and non-empty files alike.
C33_RowAgreesWithResult ==
    \A p \in Items :
        outcome[p].kind = "result" =>
            /\ written[p][1] \in CompletionMarks <=> outcome[p].ok
            /\ ~outcome[p].ok =>
                  /\ written[p][1] \in FailureMarks
                  /\ written[p][3] = (IF PresignFailed(pstat[p]) THEN pstat[p]
                                      ELSE putst[p])

\* ---- cli_progress.pac_line: the indicator -------------------------------
MaxWidth == 4
MaxSize == 4
\* mouth = "C" if int(time.time() * 6) % 2 == 0 else "c"
Mouths == {"C", "c"}
\* position = 0 if size == 0 else min(width - 1, int((sent / size) * width));
\* the quotient and the product are floating-point operations, and for
\* widths and sizes up to 7 their truncation is the exact floor
position(sentNow, size, width) ==
    IF size = 0 THEN 0 ELSE Min(width - 1, (sentNow * width) \div size)
\* the rail: "-" before position, the mouth on it, then "o" on every third
\* cell and " " on the others (cells are numbered from 0 in the code)
progress_bar(sentNow, size, width, mouth) ==
    LET pos == position(sentNow, size, width) IN
    [c \in 1 .. width |->
        LET i == c - 1 IN
        IF i = pos THEN mouth
        ELSE IF i < pos THEN "-"
        ELSE IF (i - pos) % 3 = 0 THEN "o"
        ELSE " "]

pac_line_call ==
    \E width \in 1 .. MaxWidth : \E size \in 0 .. MaxSize :
    \E sentNow \in 0 .. size : \E mouth \in Mouths :
        /\ arg' = [fn |-> "pac_line", sent |-> sentNow, size |-> size,
                   width |-> width, mouth |-> mouth]
        /\ out' = progress_bar(sentNow, size, width, mouth)
        /\ UNCHANGED env
        /\ UNCHANGED syncVars

InitPac ==
    /\ NoSync
    /\ NoHelper
NextPac == pac_line_call
SpecPac == InitPac /\ [][NextPac]_vars

\* the cells of the indicator drawn as eaten track
Filled(bar) == Cardinality({c \in DOMAIN bar : bar[c] = "-"})

\* C34: for every width > 0, size > 0 and 0 <= sent <= size the indicator of
\* pac_line is exactly width cells wide and the number of its cells drawn as
\* eaten track is floor(width * sent / size), at sent = size too.
C34_FilledIsFloor ==
    (arg.fn = "pac_line" /\ arg.size > 0) =>
        /\ Len(out) = arg.width
        /\ Filled(out) = (arg.width * arg.sent) \div arg.size

MaxEofReads == 2
ChunkSizes == 1 .. MaxSize
ProgressFile(size) ==
    [size |-> size, offset |-> 0, bytes_sent |-> 0, callbacks |-> <<>>,
     reads |-> <<>>]
\* file_handle.read(chunk_size): at most chunk_size bytes, none at the end
FileRead(f, chunk_size) == Min(chunk_size, f.size - f.offset)
\* mutant: the callback is called after every read
ReportedAlways(data) == TRUE
\* if data:
Reported(data) == data # 0
EofReads(f) == Cardinality({i \in DOMAIN f.reads : f.reads[i] = 0})

read ==
    /\ arg.fn \in {"ProgressFile", "read"}
    /\ EofReads(env) < MaxEofReads
    /\ \E chunk_size \in ChunkSizes :
       LET data == FileRead(env, chunk_size)
           now == env.bytes_sent + data
       IN  /\ arg' = [fn |-> "read", chunk_size |-> chunk_size]
           /\ out' = data
           /\ env' = [env EXCEPT
                        !.offset = @ + data,
                        !.reads = Append(@, data),
                        !.bytes_sent = IF Reported(data) THEN now ELSE @,
                        !.callbacks =
                            IF Reported(data)
                            THEN Append(@, [sent |-> now, total |-> env.size])
                            ELSE @]
    /\ UNCHANGED syncVars

InitRead ==
    /\ NoSync
    /\ arg = [fn |-> "ProgressFile"]
    /\ out = 0
    /\ \E size \in 1 .. MaxSize : env = ProgressFile(size)
NextRead == read
SpecRead == InitRead /\ [][NextRead]_vars

\* the reads that returned data, and the bytes returned by the first k of them
NonEmptyReads(f) == SelectSeq(f.reads, LAMBDA d : d # 0)
RECURSIVE SumFirst(_, _)
SumFirst(q, k) == IF k = 0 THEN 0 ELSE SumFirst(q, k - 1) + q[k]

\* C36: the progress callback of a ProgressFile over a non-empty file is
\* called once for every read that returned data and not for an empty read
\* at the end of the file; the bytes-sent values it is given are the running
\* totals of the data read, strictly increasing and never above the size,
\* and the last one is the size once the file was read to its end.
C36_CallbackPerChunk ==
    arg.fn \in {"ProgressFile", "read"} =>
        LET cb == env.callbacks
            got == NonEmptyReads(env)
        IN  /\ Len(cb) = Len(got)
            /\ \A i \in DOMAIN cb :
                  /\ cb[i].sent = SumFirst(got, i)
                  /\ cb[i].total = env.size
                  /\ cb[i].sent <= env.size
                  /\ i > 1 => cb[i - 1].sent < cb[i].sent
            /\ env.offset = env.size =>
                  /\ cb # <<>>
                  /\ cb[Len(cb)].sent = env.size

\* a file of three bytes read as 2, 1 and an empty read at its end: two
\* callbacks, (2, 3) and (3, 3)
C36_Witness ==
    /\ arg.fn = "read"
    /\ env.size = 3
    /\ env.reads = <<2, 1, 0>>
    /\ env.callbacks = <<[sent |-> 2, total |-> 3], [sent |-> 3, total |-> 3]>>

\* C37: the bearer access token goes with the presign request only: no PUT
\* to a presigned URL carries an Authorization header, for zero-byte and for
\* non-empty files.
C37_PutWithoutBearer ==
    \A p \in Items : \A k \in DOMAIN puts[p] : ~puts[p][k].auth

\* a zero-byte and a non-empty file have both been PUT, each after one presign
C37_Witness ==
    \E p, q \in Submitted :
        /\ Size(Name(p)) = 0 /\ Size(Name(q)) > 0
        /\ presigns[p] = 1 /\ presigns[q] = 1
        /\ Len(puts[p]) = 1 /\ Len(puts[q]) = 1
        /\ puts[q][1].body = Size(Name(q))

\* ---- the upload phase under fair scheduling -----------------------------
\* the steps of the task at position p: its start by the executor and the
\* steps of upload_one, each of which ends (a request answers or raises, a
\* read returns, the print lock is released by its holder)
WorkerStep(p) ==
    /\ p \in Items
    /\ \/ StartTask(p)
       \/ Presign(p)
       \/ PutZero(p)
       \/ ReadChunk(p)
       \/ PutRaises(p)
       \/ PutResponse(p)
       \/ table_update(p)
       \/ Return(p)
\* the main thread, from the confirmation on
CoordinatorStep ==
    \/ table_start
    \/ Submit
    \/ Collect
    \/ ExecutorExit
    \/ Summarize
Fairness ==
    /\ WF_vars(CoordinatorStep)
    /\ \A p \in 0 .. (MaxItems - 1) : WF_vars(WorkerStep(p))
SpecFair == Init /\ [][Next]_vars /\ Fairness

\* every task handed to the executor completes, by returning or by raising
TasksComplete ==
    \A p \in 0 .. (MaxItems - 1) :
        (p \in Items /\ futures[p] # NoFuture)
            ~> (p \in Items /\ wpc[p] = "done")

\* C38: with requests and reads that end and fairly scheduled workers, once
\* the operator has confirmed every task handed to the executor eventually
\* completes and sync eventually reaches Summarized, whatever the numbers of
\* items and of workers.
C38_ConfirmedLeadsToSummarized ==
    /\ TasksComplete
    /\ (pc = "table_start") ~> (pc = "summarized")

====
